---------------------------- MODULE Spec2Model ----------------------------
(***************************************************************************)
(* A model of the date_utils crate (src/src/lib.rs): the five public       *)
(* conversions, the future guard, and the parts of the `time` crate and of *)
(* `str` they call, computed as those compute them.                        *)
(*                                                                         *)
(* A string is the sequence of its UTF-8 bytes; an ASCII byte is written   *)
(* as the one-character string of its character, and the two bytes of a    *)
(* two-byte character as "xC3" (lead byte) and "xA9" (continuation byte).  *)
(* A Unix timestamp is the pair [d, s] standing for d * 86400 + s with     *)
(* 0 <= s < 86400 (the quotient and remainder from_unix_timestamp takes),  *)
(* so that the whole range of the `time` crate fits the checker's          *)
(* integers.                                                               *)
(***************************************************************************)
EXTENDS Integers, Sequences, FiniteSets, TLC

VARIABLES now, ticks, pc, call, result

vars == <<now, ticks, pc, call, result>>

(***************************************************************************)
(* Bounds of the model.                                                    *)
(***************************************************************************)
\* how many times the wall clock advances in a run
MaxTicks == 3

(***************************************************************************)
(* Constants of the `time` crate the code relies on.                       *)
(***************************************************************************)
\* Date::MIN / Date::MAX: the years a Date can hold
MinYear == -9999
MaxYear == 9999
\* the largest magnitude of a UtcOffset, 25:59:59, in seconds
MaxOffsetSecs == 93599
\* i32::MAX and u8::MAX, the widths str::parse is asked for
I32Max == 2147483647
U8Max == 255
SecsPerDay == 86400

(***************************************************************************)
(* Bytes and strings.                                                      *)
(***************************************************************************)
Digits == {"0", "1", "2", "3", "4", "5", "6", "7", "8", "9"}

DigitVal(b) ==
    CASE b = "0" -> 0 [] b = "1" -> 1 [] b = "2" -> 2 [] b = "3" -> 3
      [] b = "4" -> 4 [] b = "5" -> 5 [] b = "6" -> 6 [] b = "7" -> 7
      [] b = "8" -> 8 [] b = "9" -> 9

\* a UTF-8 continuation byte (10xxxxxx): never the first byte of a character
IsContinuation(b) == b = "xA9"

\* str::is_char_boundary
IsCharBoundary(s, i) ==
    \/ i = 0
    \/ i = Len(s)
    \/ (i > 0 /\ i < Len(s) /\ ~IsContinuation(s[i + 1]))

\* &s[a..b]: the bytes a .. b-1 (0-based), or a panic off a char boundary
SliceOk(s, a, b) ==
    a <= b /\ b <= Len(s) /\ IsCharBoundary(s, a) /\ IsCharBoundary(s, b)

Slice(s, a, b) == SubSeq(s, a + 1, b)

AllDigits(s) == \A i \in 1..Len(s) : s[i] \in Digits

\* the value of a digit string, or -1 once it exceeds Limit (the checked
\* multiply-and-add of from_str_radix)
RECURSIVE DigitsValue(_, _, _)
DigitsValue(s, acc, Limit) ==
    IF s = <<>> THEN acc
    ELSE IF acc > (Limit - DigitVal(Head(s))) \div 10
         THEN -1
         ELSE DigitsValue(Tail(s), acc * 10 + DigitVal(Head(s)), Limit)

NoParse == [ok |-> FALSE, val |-> 0]

\* str::parse::<i32>: an optional sign, then one or more digits, in range
\* (i32::MIN itself, one past the negated maximum, is not among the inputs)
ParseI32(s) ==
    LET signed == Len(s) > 0 /\ s[1] \in {"+", "-"}
        digits == IF signed THEN Tail(s) ELSE s
        neg == signed /\ s[1] = "-"
        v == DigitsValue(digits, 0, I32Max)
    IN  IF digits = <<>> \/ ~AllDigits(digits) \/ v < 0 THEN NoParse
        ELSE [ok |-> TRUE, val |-> IF neg THEN 0 - v ELSE v]

\* str::parse::<u8>: an optional '+', then one or more digits, at most 255
ParseU8(s) ==
    LET signed == Len(s) > 0 /\ s[1] = "+"
        digits == IF signed THEN Tail(s) ELSE s
        v == DigitsValue(digits, 0, U8Max)
    IN  IF digits = <<>> \/ ~AllDigits(digits) \/ v < 0 THEN NoParse
        ELSE [ok |-> TRUE, val |-> v]

\* str::split_once("-"): the index of the first '-', or 0
FirstDash(s) ==
    IF \E i \in 1..Len(s) : s[i] = "-"
    THEN CHOOSE i \in 1..Len(s) : s[i] = "-" /\ \A j \in 1..(i - 1) : s[j] # "-"
    ELSE 0

(***************************************************************************)
(* The calendar of the `time` crate: proleptic Gregorian.                  *)
(***************************************************************************)
IsLeapYear(y) == y % 4 = 0 /\ (y % 100 # 0 \/ y % 400 = 0)

DaysInMonth(y, m) ==
    IF m = 2 THEN (IF IsLeapYear(y) THEN 29 ELSE 28)
    ELSE IF m \in {4, 6, 9, 11} THEN 30 ELSE 31

RECURSIVE DaysBeforeMonth(_, _)
DaysBeforeMonth(y, m) ==
    IF m <= 1 THEN 0 ELSE DaysBeforeMonth(y, m - 1) + DaysInMonth(y, m - 1)

\* Date::to_julian_day less the Julian day of 1970-01-01
EpochDay(y, m, d) ==
    LET py == y - 1
        ordinal == DaysBeforeMonth(y, m) + d
    IN  ordinal + 365 * py + (py \div 4) - (py \div 100) + (py \div 400)
          + 1721425 - 2440588

\* Date::from_julian_day: the calendar date of an epoch day
CivilFromDays(z0) ==
    LET z == z0 + 719468
        era == z \div 146097
        doe == z - era * 146097
        yoe == (doe - (doe \div 1460) + (doe \div 36524) - (doe \div 146096)) \div 365
        doy == doe - (365 * yoe + (yoe \div 4) - (yoe \div 100))
        mp == (5 * doy + 2) \div 153
        d == doy - ((153 * mp + 2) \div 5) + 1
        m == IF mp < 10 THEN mp + 3 ELSE mp - 9
        y == yoe + era * 400 + (IF m <= 2 THEN 1 ELSE 0)
    IN  [year |-> y, month |-> m, day |-> d]

\* Date::from_calendar_date: the year and the day are range-checked
ValidCalendarDate(y, m, d) ==
    /\ y >= MinYear /\ y <= MaxYear
    /\ m >= 1 /\ m <= 12
    /\ d >= 1 /\ d <= DaysInMonth(y, m)

MinDay == EpochDay(MinYear, 1, 1)
MaxDay == EpochDay(MaxYear, 12, 31)

(***************************************************************************)
(* Date, Time, PrimitiveDateTime, OffsetDateTime.                          *)
(***************************************************************************)
\* Time::MIDNIGHT and Time::MAX
Midnight == [hour |-> 0, minute |-> 0, second |-> 0, nano |-> 0]
TimeMax == [hour |-> 23, minute |-> 59, second |-> 59, nano |-> 999999999]

\* PrimitiveDateTime::new(date, time) followed by assume_utc / assume_offset
NewDateTime(d, t, off) ==
    [year |-> d.year, month |-> d.month, day |-> d.day,
     hour |-> t.hour, minute |-> t.minute, second |-> t.second,
     nano |-> t.nano, offset |-> off]

NoInstant == NewDateTime([year |-> 0, month |-> 0, day |-> 0], Midnight, 0)

SecondOfDay(dt) == dt.hour * 3600 + dt.minute * 60 + dt.second

\* the instant with the given epoch day, second of that day and nanosecond,
\* read at offset off
FromParts(day, sod, nano, off) ==
    NewDateTime(CivilFromDays(day),
                [hour |-> sod \div 3600, minute |-> (sod % 3600) \div 60,
                 second |-> sod % 60, nano |-> nano],
                off)

\* OffsetDateTime::to_offset_raw: the same point of the timeline, its date
\* and time read at the offset off
ToOffsetRaw(dt, off) ==
    LET total == SecondOfDay(dt) - dt.offset + off
    IN  FromParts(EpochDay(dt.year, dt.month, dt.day) + (total \div SecsPerDay),
                  total % SecsPerDay, dt.nano, off)

\* OffsetDateTime::to_offset panics ("local datetime out of valid range")
\* when the shifted date leaves the years a Date can hold
ToOffsetInRange(dt, off) ==
    \/ dt.offset = off
    \/ LET y == ToOffsetRaw(dt, off).year IN y >= MinYear /\ y <= MaxYear

\* OffsetDateTime::unix_timestamp, as the pair [d, s]
UnixTimestamp(dt) ==
    LET total == SecondOfDay(dt) - dt.offset
    IN  [d |-> EpochDay(dt.year, dt.month, dt.day) + (total \div SecsPerDay),
         s |-> total % SecsPerDay]

\* OffsetDateTime::from_unix_timestamp: the UTC instant of an in-range stamp
FromUnixTimestamp(ts) == FromParts(ts.d, ts.s, 0, 0)

TimestampInRange(ts) == ts.d >= MinDay /\ ts.d <= MaxDay

\* Ord for OffsetDateTime compares the points of the UTC timeline
Later(a, b) ==
    LET ta == UnixTimestamp(a)
        tb == UnixTimestamp(b)
    IN  \/ ta.d > tb.d
        \/ ta.d = tb.d /\ ta.s > tb.s
        \/ ta.d = tb.d /\ ta.s = tb.s /\ a.nano > b.nano

SamePoint(a, b) == ~Later(a, b) /\ ~Later(b, a)

\* OffsetDateTime::date
DateOf(dt) == [year |-> dt.year, month |-> dt.month, day |-> dt.day]

TimeOf(dt) ==
    [hour |-> dt.hour, minute |-> dt.minute, second |-> dt.second, nano |-> dt.nano]

(***************************************************************************)
(* Date::parse(date, "[year]-[month]-[day]").                              *)
(***************************************************************************)
NoDate == [ok |-> FALSE, year |-> 0, month |-> 0, day |-> 0]

\* [year]: an optional sign and exactly four digits; [month] and [day]:
\* exactly two digits, not 00; the literals '-'; nothing after the day; and
\* the components checked by Date::from_calendar_date
DateParse(s) ==
    LET signed == Len(s) > 0 /\ s[1] \in {"+", "-"}
        body == IF signed THEN Tail(s) ELSE s
        shape == /\ Len(body) = 10
                 /\ AllDigits(SubSeq(body, 1, 4))
                 /\ body[5] = "-"
                 /\ AllDigits(SubSeq(body, 6, 7))
                 /\ body[8] = "-"
                 /\ AllDigits(SubSeq(body, 9, 10))
        yabs == DigitsValue(SubSeq(body, 1, 4), 0, I32Max)
        y == IF signed /\ s[1] = "-" THEN 0 - yabs ELSE yabs
        m == DigitsValue(SubSeq(body, 6, 7), 0, U8Max)
        d == DigitsValue(SubSeq(body, 9, 10), 0, U8Max)
    IN  IF shape /\ ValidCalendarDate(y, m, d)
        THEN [ok |-> TRUE, year |-> y, month |-> m, day |-> d]
        ELSE NoDate

(***************************************************************************)
(* Results: Ok(value) or Err(DateTimeError), and "Abort" for a panic.      *)
(***************************************************************************)
\* kind: Ok or the error's variant; dt: the Instant returned or rejected;
\* now: the clock value the call read, if it read one; str, num: the text or
\* number an error carries
Res(kind, dt, clock, str, num) ==
    [kind |-> kind, dt |-> dt, now |-> clock, str |-> str, num |-> num]

OkInstant(dt) == Res("Ok", dt, NoInstant, <<>>, 0)
Abort == Res("Abort", NoInstant, NoInstant, <<>>, 0)
NoResult == Res("None", NoInstant, NoInstant, <<>>, 0)

\* what UtcOffset::local_offset_at answers: an offset, or IndeterminateOffset
LocalOffset(secs) == [res |-> "Offset", secs |-> secs]
Indeterminate == [res |-> "Indeterminate", secs |-> 0]
NotAsked == [res |-> "NotAsked", secs |-> 0]

(***************************************************************************)
(* The operations of src/src/lib.rs.                                       *)
(***************************************************************************)
\* the guard with >= for >: an instant equal to now is rejected too
validate_not_in_future_AtOrAfter(datetime, clock) ==
    IF ~Later(clock, datetime)
    THEN Res("DateInFuture", datetime, clock, <<>>, 0)
    ELSE Res("Ok", NoInstant, clock, <<>>, 0)

\* validate_not_in_future, with the value OffsetDateTime::now_utc returns
validate_not_in_future(datetime, clock) ==
    IF Later(datetime, clock)
    THEN Res("DateInFuture", datetime, clock, <<>>, 0)
    ELSE Res("Ok", NoInstant, clock, <<>>, 0)

\* the offset resolution both conversions share: `match offset_type`
ResolveOffset(datetime_utc, offset_type, lo) ==
    IF offset_type = "Utc" THEN OkInstant(datetime_utc)
    ELSE IF lo.res # "Offset" THEN Res("ParseError", NoInstant, NoInstant, <<>>, 0)
    ELSE IF ~ToOffsetInRange(datetime_utc, lo.secs) THEN Abort
    ELSE OkInstant(ToOffsetRaw(datetime_utc, lo.secs))

parse_to_datetime(date, date_type, offset_type, lo, clock) ==
    LET parsed == DateParse(date)
        primitive_datetime ==
            NewDateTime(parsed, IF date_type = "Start" THEN Midnight ELSE TimeMax, 0)
        resolved == ResolveOffset(primitive_datetime, offset_type, lo)
        guard == validate_not_in_future(resolved.dt, clock)
    IN  IF ~parsed.ok THEN Res("InvalidDateFormat", NoInstant, NoInstant, date, 0)
        ELSE IF resolved.kind # "Ok" THEN resolved
        ELSE IF guard.kind # "Ok" THEN guard
        ELSE Res("Ok", resolved.dt, clock, <<>>, 0)

\* the conversion with the local offset attached to the UTC fields
\* (assume_offset) where the code converts (to_offset)
timestamp_to_datetime_Assume(timestamp, offset_type, lo) ==
    IF ~TimestampInRange(timestamp)
    THEN Res("InvalidTimestamp", NoInstant, NoInstant, <<>>, 0)
    ELSE IF offset_type = "Utc" THEN OkInstant(FromUnixTimestamp(timestamp))
    ELSE IF lo.res # "Offset" THEN Res("ParseError", NoInstant, NoInstant, <<>>, 0)
    ELSE OkInstant([FromUnixTimestamp(timestamp) EXCEPT !.offset = lo.secs])

timestamp_to_datetime(timestamp, offset_type, lo) ==
    IF ~TimestampInRange(timestamp)
    THEN Res("InvalidTimestamp", NoInstant, NoInstant, <<>>, 0)
    ELSE ResolveOffset(FromUnixTimestamp(timestamp), offset_type, lo)

\* the projection taken after a conversion to UTC
datetime_to_date_Utc(date) ==
    Res("OkDate", NewDateTime(DateOf(ToOffsetRaw(date, 0)), Midnight, 0),
        NoInstant, <<>>, 0)

datetime_to_date(date) ==
    Res("OkDate", NewDateTime(DateOf(date), Midnight, 0), NoInstant, <<>>, 0)

timestamp_to_offset(offset_secs) ==
    IF offset_secs >= 0 - MaxOffsetSecs /\ offset_secs <= MaxOffsetSecs
    THEN Res("OkOffset", NoInstant, NoInstant, <<>>, offset_secs)
    ELSE Res("InvalidOffset", NoInstant, NoInstant, <<>>, offset_secs)

\* Date::from_calendar_date(year, month, 1) at midnight UTC, or ParseError
FirstOfMonth(year, month) ==
    IF ValidCalendarDate(year, month, 1)
    THEN OkInstant(NewDateTime([year |-> year, month |-> month, day |-> 1], Midnight, 0))
    ELSE Res("ParseError", NoInstant, NoInstant, <<>>, 0)

\* the year-month grammar: split_once("-"), parse::<i32>, parse::<u8>
YearMonthMatch(time_period) ==
    LET i == FirstDash(time_period)
    IN  /\ i > 0
        /\ ParseI32(SubSeq(time_period, 1, i - 1)).ok
        /\ ParseU8(SubSeq(time_period, i + 1, Len(time_period))).ok

\* the year-month grammar with a month above 12 clamped to December
YearMonth_Clamp(time_period) ==
    LET i == FirstDash(time_period)
        year == ParseI32(SubSeq(time_period, 1, i - 1)).val
        month == ParseU8(SubSeq(time_period, i + 1, Len(time_period))).val
    IN  IF month < 1
        THEN Res("InvalidDateFormat", NoInstant, NoInstant, time_period, 0)
        ELSE FirstOfMonth(year, IF month > 12 THEN 12 ELSE month)

YearMonth(time_period) ==
    LET i == FirstDash(time_period)
        year == ParseI32(SubSeq(time_period, 1, i - 1)).val
        month == ParseU8(SubSeq(time_period, i + 1, Len(time_period))).val
    IN  IF month < 1 \/ month > 12
        THEN Res("InvalidDateFormat", NoInstant, NoInstant, time_period, 0)
        ELSE FirstOfMonth(year, month)

\* the quarters mapped to their last months
QuarterMonth_Last(quarter) ==
    CASE quarter = 1 -> 3 [] quarter = 2 -> 6 [] quarter = 3 -> 9
      [] quarter = 4 -> 12 [] OTHER -> 0

QuarterMonth(quarter) ==
    CASE quarter = 1 -> 1 [] quarter = 2 -> 4 [] quarter = 3 -> 7
      [] quarter = 4 -> 10 [] OTHER -> 0

\* the quarter grammar, the slices taken in the order the code takes them
Quarter(time_period) ==
    LET year == ParseI32(Slice(time_period, 0, 4))
        quarter == ParseU8(Slice(time_period, 6, 7))
    IN  IF ~SliceOk(time_period, 0, 4) THEN Abort
        ELSE IF ~year.ok
        THEN Res("InvalidDateFormat", NoInstant, NoInstant, time_period, 0)
        ELSE IF ~SliceOk(time_period, 6, 7) THEN Abort
        ELSE IF ~quarter.ok
        THEN Res("InvalidDateFormat", NoInstant, NoInstant, time_period, 0)
        ELSE IF QuarterMonth(quarter.val) = 0
        THEN Res("InvalidTimeComponent", NoInstant, NoInstant, <<>>, quarter.val)
        ELSE FirstOfMonth(year.val, QuarterMonth(quarter.val))

\* Err(ParseError(format!("Unsupported date format: {time_period}")))
Unsupported(time_period) ==
    Res("ParseError", NoInstant, NoInstant,
        <<"Unsupported date format: ">> \o time_period, 0)

parse_response_string_to_datetime(time_period, offset_type, lo, clock) ==
    LET full == parse_to_datetime(time_period, "End", offset_type, lo, clock)
    IN  IF full.kind \in {"Ok", "Abort"} THEN full
        ELSE IF YearMonthMatch(time_period) THEN YearMonth(time_period)
        ELSE IF Len(time_period) # 7 THEN Unsupported(time_period)
        ELSE IF ~SliceOk(time_period, 5, 6) THEN Abort
        ELSE IF Slice(time_period, 5, 6) = <<"Q">> THEN Quarter(time_period)
        ELSE Unsupported(time_period)


(***************************************************************************)
(* The inputs the calls are made with.                                     *)
(***************************************************************************)
Dash == <<"-">>

Years4 ==
    { <<"2", "0", "2", "4">>, <<"2", "0", "2", "5">>, <<"2", "0", "2", "8">>,
      <<"9", "9", "9", "9">> }
Months2 == { <<"0", "2">>, <<"0", "5">>, <<"1", "2">>, <<"1", "3">>, <<"0", "0">> }
Days2 ==
    { <<"0", "9">>, <<"1", "0">>, <<"1", "1">>, <<"2", "9">>, <<"3", "0">>,
      <<"3", "1">>, <<"0", "0">> }

\* strings of the shape YYYY-MM-DD, calendar-valid or not
ShapedDates == { y \o Dash \o m \o Dash \o d : y \in Years4, m \in Months2, d \in Days2 }

\* a full date with a sign before the year
SignedDates ==
    { sg \o d : sg \in { <<"+">>, <<"-">> },
                d \in { <<"2", "0", "2", "5", "-", "0", "5", "-", "1", "0">>,
                        <<"9", "9", "9", "9", "-", "0", "1", "-", "0", "1">>,
                        <<"9", "9", "9", "9", "-", "1", "2", "-", "3", "1">> } }

\* the malformed dates of tests/lib.rs, and a few more
MalformedDates ==
    { <<"2", "0", "2", "5", "/", "0", "5", "/", "1", "0">>,
      <<"2", "0", "2", "-", "0", "5", "-", "1", "0">>,
      <<"2", "0", "2", "5", "-", "1", "4", "-", "4", "0">>,
      <<"2", "0", "2", "5", "-", "0", "5", "-", "4", "0", " ", "1", "2", ":">>,
      <<"2", "0", "2", "5", "-", "0", "5", "-", "1", "0", " ", "1", "2", ":", "7", "0">>,
      <<"2", "0", "2", "5", "-", "5", "-", "1", "0">>,
      <<"2", "0", "2", "5", "-", "0", "5", "-", "1">>,
      <<" ", "2", "0", "2", "5", "-", "0", "5", "-", "1", "0">>,
      <<"2", "0", "2", "5", "0", "5", "1", "0">>,
      <<>> }

YearTexts ==
    { <<"2", "0", "2", "4">>, <<"+", "2", "0", "2", "4">>, <<"-", "2", "0", "2", "4">>,
      <<"9", "9", "9", "9">>, <<"1", "0", "0", "0", "0">>, <<"0">>, <<"7">>,
      <<"9", "9", "9", "9", "9", "9", "9", "9", "9", "9", "9">>,
      <<"2", "0", "a", "4">>, <<>> }
MonthTexts ==
    { <<"0", "5">>, <<"5">>, <<"0", "1">>, <<"1", "2">>, <<"1", "3">>, <<"0">>,
      <<"2", "5", "5">>, <<"2", "5", "6">>, <<"+", "7">>, <<"-", "1">>,
      <<"0", "0", "1", "1">>, <<"x">>, <<>> }

\* strings Y-M
YearMonths == { y \o Dash \o m : y \in YearTexts, m \in MonthTexts }

QuarterYears ==
    { <<"2", "0", "2", "4">>, <<"0", "0", "0", "0">>, <<"9", "9", "9", "9">>,
      <<"-", "9", "9", "9">>, <<"2", "0", "a", "4">> }
Separators == { <<"-">>, <<"/">>, <<" ">>, <<"Q">> }

\* seven-byte strings with Q at index 5
Quarters ==
    { y \o sep \o <<"Q">> \o <<n>> : y \in QuarterYears, sep \in Separators,
                                     n \in Digits \cup {"A"} }

\* strings with the two-byte character (bytes "xC3", "xA9") in them, and
\* near-misses of the quarter grammar
OddStrings ==
    { <<"2", "0", "2", "4", "-", "xC3", "xA9">>,
      <<"2", "0", "2", "xC3", "xA9", "Q", "1">>,
      <<"2", "0", "xC3", "xA9", "-", "Q", "1">>,
      <<"2", "0", "2", "4", "xC3", "xA9", "Q", "1">>,
      <<"2", "0", "2", "4", "Q", "xC3", "xA9">>,
      <<"xC3", "xA9">>,
      <<"2", "0", "2", "4", "-", "q", "1">>,
      <<"2", "0", "2", "4", "-", "Q">>,
      <<"2", "0", "2", "4", "-", "Q", "1", "0">>,
      <<"2", "0", "2", "4", "-", "1", "Q">>,
      <<"2", "0", "2", "4">> }

Strings ==
    ShapedDates \cup SignedDates \cup MalformedDates \cup YearMonths
      \cup Quarters \cup OddStrings

DateTypes == {"Start", "End"}
OffsetTypes == {"Utc", "Local"}

\* what the host may answer to local_offset_at
LocalAnswers == { Indeterminate, LocalOffset(-18000), LocalOffset(0), LocalOffset(7200) }

Answers(offset_type) == IF offset_type = "Local" THEN LocalAnswers ELSE {NotAsked}

\* epoch seconds, as [d, s]: the ends of the range, the values next to
\* them, the epoch, the timestamp of tests/lib.rs (1732440896), far values
TimestampDays ==
    { MinDay - 1, MinDay, MinDay + 1, -1, 0, 20051, 20217, MaxDay - 1, MaxDay,
      MaxDay + 1, 0 - I32Max, I32Max }
TimestampSecs == { 0, 1, 7199, 34496, 68400, 79200, 86399 }
Timestamps == { [d |-> d, s |-> s] : d \in TimestampDays, s \in TimestampSecs }

\* the instants timestamp_to_datetime can hand to datetime_to_date
Instants ==
    { ToOffsetRaw(FromUnixTimestamp(ts), lo.secs) :
        ts \in { t \in Timestamps : t.d > MinDay /\ t.d < MaxDay },
        lo \in { a \in LocalAnswers : a.res = "Offset" } }

OffsetSeconds ==
    { 0, -14400, 3600, MaxOffsetSecs, MaxOffsetSecs + 1, 0 - MaxOffsetSecs,
      0 - MaxOffsetSecs - 1, I32Max, 0 - I32Max }

(***************************************************************************)
(* The state machine: a caller makes one call at a time; the wall clock    *)
(* advances between calls.                                                 *)
(***************************************************************************)
Call(op, str, date_type, offset_type, lo, ts, num, dt) ==
    [op |-> op, str |-> str, date_type |-> date_type, offset_type |-> offset_type,
     local |-> lo, ts |-> ts, num |-> num, dt |-> dt]

NoTs == [d |-> 0, s |-> 0]
NoCall == Call("none", <<>>, "-", "-", NotAsked, NoTs, 0, NoInstant)

\* the clock when the run starts: 2025-05-09 23:59:59.999999998 UTC
StartClock ==
    NewDateTime([year |-> 2025, month |-> 5, day |-> 9],
                [hour |-> 23, minute |-> 59, second |-> 59, nano |-> 999999998], 0)

Init ==
    /\ now = StartClock
    /\ ticks = 0
    /\ pc = "idle"
    /\ call = NoCall
    /\ result = NoResult

\* the clock after one more nanosecond
NextNano(dt) ==
    LET ts == UnixTimestamp(dt)
    IN  IF dt.nano < 999999999 THEN [dt EXCEPT !.nano = dt.nano + 1]
        ELSE IF ts.s < SecsPerDay - 1 THEN FromParts(ts.d, ts.s + 1, 0, 0)
        ELSE FromParts(ts.d + 1, 0, 0, 0)

\* the clock one day later
NextDay(dt) ==
    LET ts == UnixTimestamp(dt) IN FromParts(ts.d + 1, ts.s, dt.nano, 0)

Tick ==
    /\ pc = "idle"
    /\ ticks < MaxTicks
    /\ \E next \in {NextNano(now), NextDay(now)} : now' = next
    /\ ticks' = ticks + 1
    /\ UNCHANGED <<pc, call, result>>

CallParseToDatetime ==
    /\ pc = "idle"
    /\ \E date \in Strings, date_type \in DateTypes, offset_type \in OffsetTypes :
         \E lo \in Answers(offset_type) :
            /\ call' = Call("parse_to_datetime", date, date_type, offset_type, lo,
                            NoTs, 0, NoInstant)
            /\ result' = parse_to_datetime(date, date_type, offset_type, lo, now)
    /\ pc' = "returned"
    /\ UNCHANGED <<now, ticks>>

CallTimestampToDatetime ==
    /\ pc = "idle"
    /\ \E timestamp \in Timestamps, offset_type \in OffsetTypes :
         \E lo \in Answers(offset_type) :
            /\ call' = Call("timestamp_to_datetime", <<>>, "-", offset_type, lo,
                            timestamp, 0, NoInstant)
            /\ result' = timestamp_to_datetime(timestamp, offset_type, lo)
    /\ pc' = "returned"
    /\ UNCHANGED <<now, ticks>>

CallDatetimeToDate ==
    /\ pc = "idle"
    /\ \E date \in Instants :
            /\ call' = Call("datetime_to_date", <<>>, "-", "-", NotAsked, NoTs, 0, date)
            /\ result' = datetime_to_date(date)
    /\ pc' = "returned"
    /\ UNCHANGED <<now, ticks>>

CallTimestampToOffset ==
    /\ pc = "idle"
    /\ \E offset_secs \in OffsetSeconds :
            /\ call' = Call("timestamp_to_offset", <<>>, "-", "-", NotAsked, NoTs,
                            offset_secs, NoInstant)
            /\ result' = timestamp_to_offset(offset_secs)
    /\ pc' = "returned"
    /\ UNCHANGED <<now, ticks>>

CallParseResponseString ==
    /\ pc = "idle"
    /\ \E time_period \in Strings, offset_type \in OffsetTypes :
         \E lo \in Answers(offset_type) :
            /\ call' = Call("parse_response_string_to_datetime", time_period, "-",
                            offset_type, lo, NoTs, 0, NoInstant)
            /\ result' = parse_response_string_to_datetime(time_period, offset_type,
                                                           lo, now)
    /\ pc' = "returned"
    /\ UNCHANGED <<now, ticks>>

\* the caller takes the result; the next call can be made
Return ==
    /\ pc = "returned"
    /\ pc' = "idle"
    /\ call' = NoCall
    /\ result' = NoResult
    /\ UNCHANGED <<now, ticks>>

Next ==
    \/ Tick
    \/ CallParseToDatetime
    \/ CallTimestampToDatetime
    \/ CallDatetimeToDate
    \/ CallTimestampToOffset
    \/ CallParseResponseString
    \/ Return

Spec == Init /\ [][Next]_vars

(***************************************************************************)
(* The claims.  What a claim says of a string is read off the string       *)
(* itself, not off the parser.                                             *)
(***************************************************************************)
Returned(op) == pc = "returned" /\ call.op = op

Num(s) == DigitsValue(s, 0, I32Max)

\* four digits, '-', two digits, '-', two digits
FullDateShape(s) ==
    /\ Len(s) = 10
    /\ \A i \in {1, 2, 3, 4, 6, 7, 9, 10} : s[i] \in Digits
    /\ s[5] = "-" /\ s[8] = "-"

WrittenDate(s) ==
    [year |-> Num(SubSeq(s, 1, 4)), month |-> Num(SubSeq(s, 6, 7)),
     day |-> Num(SubSeq(s, 9, 10))]

\* a zero-padded YYYY-MM-DD with month 01-12 and a day of that month
CalendarValid(s) ==
    /\ FullDateShape(s)
    /\ WrittenDate(s).month \in 1..12
    /\ WrittenDate(s).day \in 1..DaysInMonth(WrittenDate(s).year, WrittenDate(s).month)

\* the first or last instant of the day written in s, in UTC
Boundary(s, date_type) ==
    NewDateTime(WrittenDate(s), IF date_type = "Start" THEN Midnight ELSE TimeMax, 0)

ValidFields(dt) ==
    /\ ValidCalendarDate(dt.year, dt.month, dt.day)
    /\ dt.hour \in 0..23 /\ dt.minute \in 0..59 /\ dt.second \in 0..59

\* C1: for every calendar-valid, non-future YYYY-MM-DD string and either
\* offset mode, the Instant parse_to_datetime returns has the time of day
\* 00:00:00.000000000 (Start) or 23:59:59.999999999 (End), on the date
\* written in the string.
C1_BoundaryTimeOfDay ==
    (Returned("parse_to_datetime") /\ CalendarValid(call.str) /\ result.kind = "Ok")
        => /\ TimeOf(result.dt) = TimeOf(Boundary(call.str, call.date_type))
           /\ DateOf(result.dt) = WrittenDate(call.str)

\* the offset of the call was resolved: UTC, or a local offset that keeps
\* the instant within the years a Date can hold
C2_Resolved ==
    \/ call.offset_type = "Utc"
    \/ /\ call.local.res = "Offset"
       /\ ToOffsetInRange(Boundary(call.str, call.date_type), call.local.secs)

C2_Instant ==
    IF call.offset_type = "Utc" THEN Boundary(call.str, call.date_type)
    ELSE ToOffsetRaw(Boundary(call.str, call.date_type), call.local.secs)

\* C2: on a calendar-valid full date, parse_to_datetime fails with
\* DateInFuture (carrying the rejected value and the observed now) exactly
\* when the resolved Instant is strictly later than the clock read in the
\* call, and otherwise returns the Instant; no Instant it returns is later
\* than the now its call observed, and an Instant equal to now is accepted.
C2_FutureGuard ==
    /\ (Returned("parse_to_datetime") /\ CalendarValid(call.str) /\ C2_Resolved)
          => /\ Later(C2_Instant, now)
                  => /\ result.kind = "DateInFuture"
                     /\ result.dt = C2_Instant
                     /\ result.now = now
             /\ ~Later(C2_Instant, now)
                  => /\ result.kind = "Ok"
                     /\ result.dt = C2_Instant
    /\ (Returned("parse_to_datetime") /\ result.kind = "Ok")
          => /\ result.now = now
             /\ ~Later(result.dt, result.now)

\* an end of day equal to the clock, to the nanosecond, was accepted
C2_Witness ==
    /\ Returned("parse_to_datetime")
    /\ CalendarValid(call.str)
    /\ call.date_type = "End"
    /\ result.kind = "Ok"
    /\ SamePoint(result.dt, now)

\* C3: parse_response_string_to_datetime applies no future-date rejection:
\* for every calendar-valid YYYY-MM-DD string and every clock, the call in
\* UTC mode returns the end of that day, 23:59:59.999999999 at offset zero.
C3_NoFutureRejection ==
    (/\ Returned("parse_response_string_to_datetime")
     /\ call.offset_type = "Utc"
     /\ CalendarValid(call.str))
        => /\ result.kind = "Ok"
           /\ result.dt = Boundary(call.str, "End")

\* C4, as stated: for every in-range timestamp and either offset mode,
\* timestamp_to_datetime succeeds, the epoch seconds of the Instant are the
\* timestamp, and in UTC mode the offset is zero.
C4_AlwaysSucceeds ==
    (Returned("timestamp_to_datetime") /\ TimestampInRange(call.ts))
        => /\ result.kind = "Ok"
           /\ UnixTimestamp(result.dt) = call.ts
           /\ (call.offset_type = "Utc" => result.dt.offset = 0)

\* C4, amended: for every in-range timestamp, in UTC mode the call returns
\* the Instant at offset zero whose epoch seconds are the timestamp; in
\* Local mode it fails with ParseError exactly when the local offset is
\* indeterminate, aborts exactly when the shifted date leaves the years a
\* Date can hold, and otherwise returns an Instant at the local offset whose
\* epoch seconds are the timestamp.  The clock is never read.
C4_RoundTrip ==
    (Returned("timestamp_to_datetime") /\ TimestampInRange(call.ts))
        => /\ result.kind \in {"Ok", "ParseError", "Abort"}
           /\ result.kind = "Ok"
                => /\ UnixTimestamp(result.dt) = call.ts
                   /\ ValidFields(result.dt)
                   /\ result.dt.nano = 0
                   /\ result.now = NoInstant
           /\ call.offset_type = "Utc"
                => /\ result.kind = "Ok"
                   /\ result.dt.offset = 0
           /\ call.offset_type = "Local"
                => /\ result.kind = "ParseError" <=> call.local.res = "Indeterminate"
                   /\ result.kind = "Abort"
                        <=> /\ call.local.res = "Offset"
                            /\ LET day == call.ts.d
                                          + ((call.ts.s + call.local.secs) \div SecsPerDay)
                               IN  day < MinDay \/ day > MaxDay
                   /\ result.kind = "Ok" => result.dt.offset = call.local.secs
           /\ call.ts = [d |-> 20051, s |-> 34496] /\ call.offset_type = "Utc"
                => result.dt = [year |-> 2024, month |-> 11, day |-> 24, hour |-> 9,
                                minute |-> 34, second |-> 56, nano |-> 0, offset |-> 0]

\* 22:00 UTC of 2024-11-24 read at +02:00: midnight of the 25th
C4_Witness ==
    /\ Returned("timestamp_to_datetime")
    /\ call.offset_type = "Local"
    /\ call.ts = [d |-> 20051, s |-> 79200]
    /\ result.kind = "Ok"
    /\ result.dt.offset = 7200
    /\ result.dt.day = 25

\* C5: parse_to_datetime returns InvalidDateFormat, carrying the string,
\* for every string that is not exactly a zero-padded YYYY-MM-DD with month
\* 01-12 and a day valid for the month and year; it never returns an
\* Instant or DateInFuture for such a string.
C5_MalformedRejected ==
    (Returned("parse_to_datetime") /\ ~CalendarValid(call.str))
        => /\ result.kind = "InvalidDateFormat"
           /\ result.str = call.str

\* seven bytes: a four-digit year, a one-byte separator, Q at index 5 and
\* one digit
IsQuarterString(s) ==
    /\ Len(s) = 7
    /\ \A i \in 1..4 : s[i] \in Digits
    /\ s[5] \notin Digits \cup {"xC3", "xA9"}
    /\ s[6] = "Q"
    /\ s[7] \in Digits

\* C6: for such a string with year Y and digit N, N in 1..4 yields
\* Y-M-01 00:00:00 at offset zero with M = 1, 4, 7, 10, for either offset
\* mode and any clock; N = 0 or N in 5..9 fails with InvalidTimeComponent.
C6_QuarterGrammar ==
    (Returned("parse_response_string_to_datetime") /\ IsQuarterString(call.str))
        => LET Y == Num(SubSeq(call.str, 1, 4))
               N == DigitVal(call.str[7])
           IN  /\ N \in 1..4
                    => result = OkInstant(NewDateTime(
                           [year |-> Y, month |-> 3 * N - 2, day |-> 1], Midnight, 0))
               /\ N \notin 1..4
                    => /\ result.kind = "InvalidTimeComponent"
                       /\ result.num = N

\* the fourth quarter, asked for in Local mode on a host with no local offset
C6_Witness ==
    /\ Returned("parse_response_string_to_datetime")
    /\ IsQuarterString(call.str)
    /\ call.local = Indeterminate
    /\ result.kind = "Ok"
    /\ result.dt.month = 10

\* C7, as stated: for every string Y-M that is not a full date, with Y a
\* signed integer and M an unsigned byte, M in 1..12 yields year Y, month
\* M, day 1 at 00:00:00 and offset zero, and M outside 1..12 fails with
\* InvalidDateFormat.
C7_EveryYear ==
    Returned("parse_response_string_to_datetime")
        => \A i \in 1..Len(call.str) :
              LET Y == ParseI32(SubSeq(call.str, 1, i - 1))
                  M == ParseU8(SubSeq(call.str, i + 1, Len(call.str)))
              IN  (call.str[i] = "-" /\ Y.ok /\ M.ok /\ ~CalendarValid(call.str))
                    => /\ M.val \in 1..12
                            => result = OkInstant(NewDateTime(
                                   [year |-> Y.val, month |-> M.val, day |-> 1],
                                   Midnight, 0))
                       /\ M.val \notin 1..12 => result.kind = "InvalidDateFormat"

\* the string splits at its first '-' into a signed integer and an
\* unsigned byte
IsYearMonthString(s) ==
    /\ FirstDash(s) > 0
    /\ ParseI32(SubSeq(s, 1, FirstDash(s) - 1)).ok
    /\ ParseU8(SubSeq(s, FirstDash(s) + 1, Len(s))).ok

\* C7, amended: for every string whose part before its first '-' parses
\* as a signed integer Y and whose part after it as an unsigned byte M: M
\* outside 1..12 fails with InvalidDateFormat carrying the string; M in
\* 1..12 yields year Y, month M, day 1 at 00:00:00 and offset zero when Y
\* is a year a Date can hold (-9999..9999), and fails with ParseError (not
\* the unsupported-format one) when it is not; for either offset mode and
\* any clock.
C7_YearMonthGrammar ==
    (Returned("parse_response_string_to_datetime") /\ IsYearMonthString(call.str))
        => LET Y == ParseI32(SubSeq(call.str, 1, FirstDash(call.str) - 1)).val
               M == ParseU8(SubSeq(call.str, FirstDash(call.str) + 1,
                                   Len(call.str))).val
           IN  /\ M \notin 1..12
                    => /\ result.kind = "InvalidDateFormat"
                       /\ result.str = call.str
               /\ (M \in 1..12 /\ Y >= MinYear /\ Y <= MaxYear)
                    => result = OkInstant(NewDateTime(
                           [year |-> Y, month |-> M, day |-> 1], Midnight, 0))
               /\ (M \in 1..12 /\ (Y < MinYear \/ Y > MaxYear))
                    => /\ result.kind = "ParseError"
                       /\ result.str = <<>>

\* month 13 of a year no Date can hold: the month is what fails
C7_Witness ==
    /\ Returned("parse_response_string_to_datetime")
    /\ call.str = <<"1", "0", "0", "0", "0", "-", "1", "3">>
    /\ call.offset_type = "Local"
    /\ result.kind = "InvalidDateFormat"

\* C8: every public operation returns a value or a DateTimeError for every
\* input; no call aborts.
C8_NoAbort == pc = "returned" => result.kind # "Abort"

C10_CalendarInvalidIsFatal ==
    (/\ Returned("parse_response_string_to_datetime")
     /\ FullDateShape(call.str)
     /\ ~CalendarValid(call.str))
        => result.kind = "InvalidDateFormat"


=============================================================================
